---- MODULE Spec2Model ----
(***************************************************************************)
(* Session / token authentication flow of the e-commerce REST backend.     *)
(*                                                                         *)
(* The HTTP handlers createUser, login, logout, refresh and currentUser    *)
(* (api/v1/user.go) are modelled statement by statement; every request     *)
(* runs in its own goroutine, so a request advances one application call   *)
(* at a time and requests interleave at those calls.  The application      *)
(* layer the handlers call (IssueTokens, SaveAuth, ExtractTokenMetadata,   *)
(* DeleteAuth, RefreshToken, the SessionRequired middleware and the        *)
(* respond* helpers) is not part of the sources at hand and is modelled    *)
(* from its contract in the specification (sections 4.1 - 4.4, 7).         *)
(***************************************************************************)
EXTENDS Integers, Sequences, FiniteSets, TLC

\* Requests started in one run.
MaxRequests == 3

\* Two requests are in flight at a time: a handler reads or writes the store
\* at most twice, and the races of the flow are between two requests.
Slots == {1, 2}

VARIABLES
    req,      \* slot -> the request handled there (handler, position, locals, trace)
    auth,     \* Session Store: the token identifiers (UUIDs) with a live record
    cookies,  \* token pairs handed to a client by AttachSessionCookies
    revoked,  \* history: access UUIDs whose record a logout removed
    nreq      \* requests started so far

vars == <<req, auth, cookies, revoked, nreq>>

----------------------------------------------------------------------------
(* Token pairs.  IssueTokens draws two fresh identifiers per call; the n-th *)
(* request of a run draws 2n-1 and 2n.  NoMeta is the nil *TokenMetadata.  *)

NoMeta == [AccessUUID |-> 0, RefreshUUID |-> 0]

NewMeta(n) == [AccessUUID |-> 2 * n - 1, RefreshUUID |-> 2 * n]

----------------------------------------------------------------------------
(* The trace of a request: the calls its handler made and the responses    *)
(* written to its http.ResponseWriter, each with the number of calls made  *)
(* before it.                                                              *)

Call(fn, meta, uuid, err, n) ==
    [fn |-> fn, meta |-> meta, uuid |-> uuid, err |-> err, n |-> n]

called(r, c) == [r EXCEPT !.calls = Append(@, c)]

goto(r, pc) == [r EXCEPT !.pc = pc]

return(r) == [r EXCEPT !.pc = "done"]

\* The middleware answered: the handler is never entered.
reject(r) == [r EXCEPT !.pc = "rejected"]

panic(r) == [r EXCEPT !.pc = "panic"]

\* respondError(w, err): writes err as the response.
respondError(r, err) ==
    [r EXCEPT !.resp = Append(@, [kind |-> "error", code |-> 0, err |-> err,
                                  at |-> Len(r.calls)])]

\* respondJSON(w, status, v)
respondJSON(r, status) ==
    [r EXCEPT !.resp = Append(@, [kind |-> "success", code |-> status, err |-> "nil",
                                  at |-> Len(r.calls)])]

\* respondOK(w)
respondOK(r) == respondJSON(r, 200)

----------------------------------------------------------------------------
(* Routes.  InitUser registers each handler, bare or wrapped in the        *)
(* SessionRequired middleware.                                             *)

Route(method, mux, path, handler, wrap) ==
    [method |-> method, mux |-> mux, path |-> path, handler |-> handler, wrap |-> wrap]

\* InitUser with the logout route registered bare.
InitUserLogoutOpen ==
    { Route("GET",    "Users", "/me",            "currentUser", "SessionRequired"),
      Route("POST",   "Users", "/",              "createUser",  "none"),
      Route("POST",   "Users", "/login",         "login",       "none"),
      Route("POST",   "Users", "/logout",        "logout",      "none"),
      Route("POST",   "Users", "/token/refresh", "refresh",     "none") }

InitUser ==
    { Route("GET",    "Users", "/me",                    "currentUser",            "SessionRequired"),
      Route("POST",   "Users", "/",                      "createUser",             "none"),
      Route("POST",   "Users", "/login",                 "login",                  "none"),
      Route("POST",   "Users", "/logout",                "logout",                 "SessionRequired"),
      Route("POST",   "Users", "/token/refresh",         "refresh",                "none"),
      Route("POST",   "Users", "/email/verify",          "verifyUserEmail",        "none"),
      Route("POST",   "Users", "/email/verify/send",     "sendVerificationEmail",  "none"),
      Route("POST",   "Users", "/password/reset",        "resetUserPassword",      "none"),
      Route("POST",   "Users", "/password/reset/send",   "sendPasswordResetEmail", "none"),
      Route("PATCH",  "Users", "/",                      "updateProfile",          "SessionRequired"),
      Route("PUT",    "Users", "/password",              "changeUserPassword",     "SessionRequired"),
      Route("POST",   "Users", "/avatar",                "uploadUserAvatar",       "SessionRequired"),
      Route("PATCH",  "Users", "/avatar",                "deleteUserAvatar",       "SessionRequired"),
      Route("POST",   "Users", "/address",               "createUserAddress",      "SessionRequired"),
      Route("GET",    "Users", "/address/{address_id}",  "getUserAddress",         "SessionRequired"),
      Route("PATCH",  "Users", "/address/{address_id}",  "updateUserAddress",      "SessionRequired"),
      Route("DELETE", "Users", "/address/{address_id}",  "deleteUserAddress",      "SessionRequired"),
      Route("GET",    "User",  "/",                      "getUser",                "none"),
      Route("DELETE", "User",  "/",                      "deleteUser",             "none") }

\* The handlers of the session flow, whose bodies are modelled below.
SessionFlowHandlers == {"createUser", "login", "logout", "refresh", "currentUser"}

\* The first statement of each handler.
Entry(h) ==
    CASE h = "createUser"  -> "UserFromJSON"
      [] h = "login"       -> "UserLoginFromJSON"
      [] h = "logout"      -> "DeleteSessionCookies"
      [] h = "refresh"     -> "RefreshTokenFromJSON"
      [] h = "currentUser" -> "GetUserByID"

----------------------------------------------------------------------------
(* The application layer, from its contract.                               *)

\* Token Verifier (4.3): signature, expiry and a live record for the UUID.
Verified(uuid) == uuid # 0 /\ uuid \in auth

\* Session Store.Save (4.2): both identifiers are recorded, or the save fails.
SaveAuth(meta, err) ==
    IF err = "nil" /\ meta # NoMeta
    THEN auth \cup {meta.AccessUUID, meta.RefreshUUID}
    ELSE auth

\* What a call handed the nil pair may do: fail, dereference it, or do nothing.
SaveAuthOutcomes(meta) ==
    IF meta = NoMeta THEN {"nil", "PersistenceError", "panic"}
    ELSE {"nil", "PersistenceError"}

AttachOutcomes(meta) == IF meta = NoMeta THEN {"nil", "panic"} ELSE {"nil"}

\* AttachSessionCookies(w, meta): the client now holds the pair.
AttachSessionCookies(meta, out) ==
    IF out = "nil" /\ meta # NoMeta THEN cookies \cup {meta} ELSE cookies

\* Session Store.Delete (4.2): the number of records removed, 0 when absent.
DeleteAuthCount(uuid, err) == IF err = "nil" /\ uuid \in auth THEN 1 ELSE 0

DeleteAuth(uuid, err) == IF err = "nil" THEN auth \ {uuid} ELSE auth

\* respondError(w, nil): the helper either dereferences nil or writes it.
RespondNilOutcomes == {"write", "panic"}

----------------------------------------------------------------------------
(* Requests.                                                               *)

Idle ==
    [h |-> "none", pc |-> "idle", id |-> 0, tok |-> NoMeta, meta |-> NoMeta,
     ad |-> 0, calls |-> <<>>, resp |-> <<>>, late |-> FALSE]

Finished(r) == r.pc \in {"idle", "done", "panic", "rejected"}

\* The outcomes of the call at position pc: a call not reached has none.
Outcomes(r, pc, S) == IF r.pc = pc THEN S ELSE {"nil"}

Init ==
    /\ req = [s \in Slots |-> Idle]
    /\ auth = {}
    /\ cookies = {}
    /\ revoked = {}
    /\ nreq = 0

\* The router hands a request to the handler registered for its route; a
\* wrapped handler runs behind the middleware.  The client presents a token
\* pair it was given, or none (login and registration read no token).  The
\* request takes the first free slot: which slot holds it means nothing.
Arrive(s) ==
    /\ Finished(req[s])
    /\ \A t \in Slots : t < s => ~Finished(req[t])
    /\ nreq < MaxRequests
    /\ \E rt \in {x \in InitUser : x.handler \in SessionFlowHandlers} :
         \E tok \in (IF rt.handler \in {"login", "createUser"} THEN {} ELSE cookies)
                      \cup {NoMeta} :
           req' = [req EXCEPT ![s] =
                     [Idle EXCEPT !.h = rt.handler,
                                  !.pc = IF rt.wrap = "SessionRequired"
                                         THEN "SessionRequired" ELSE Entry(rt.handler),
                                  !.id = nreq + 1,
                                  !.tok = tok,
                                  !.late = tok.AccessUUID \in revoked]]
    /\ nreq' = nreq + 1
    /\ UNCHANGED <<auth, cookies, revoked>>

\* SessionRequired: the Token Verifier checks the access token; a request
\* that fails it is answered 401 and never reaches the handler.
SessionRequired(s) ==
    LET r == req[s] IN
    /\ r.pc = "SessionRequired"
    /\ req' = [req EXCEPT ![s] =
                 IF Verified(r.tok.AccessUUID)
                 THEN goto(r, Entry(r.h))
                 ELSE reject(respondError(r, "Unauthenticated"))]
    /\ UNCHANGED <<auth, cookies, revoked, nreq>>

\* The store's own TTL eviction of one record.
Expire ==
    /\ \E u \in auth : auth' = auth \ {u}
    /\ UNCHANGED <<req, cookies, revoked, nreq>>

----------------------------------------------------------------------------
(* currentUser                                                             *)

currentUserGetUserByID(r, err) ==
    LET r1 == called(r, Call("GetUserByID", NoMeta, 0, err, 0)) IN
    IF err # "nil" THEN return(respondError(r1, err))
    ELSE return(respondJSON(r1, 200))

currentUser(s) ==
    LET r == req[s] IN
    /\ r.h = "currentUser" /\ r.pc = "GetUserByID"
    /\ \E err \in {"nil", "NotFound"} :
         req' = [req EXCEPT ![s] = currentUserGetUserByID(r, err)]
    /\ UNCHANGED <<auth, cookies, revoked, nreq>>

----------------------------------------------------------------------------
(* login                                                                   *)

loginUserLoginFromJSON(r, e) ==
    LET r1 == called(r, Call("UserLoginFromJSON", NoMeta, 0, e, 0)) IN
    IF e # "nil" THEN return(respondError(r1, "msgUserFromJSON"))
    ELSE goto(r1, "Login")

\* loginLogin without the return after respondError.
loginLoginNoReturn(r, err) ==
    LET r1 == called(r, Call("Login", NoMeta, 0, err, 0)) IN
    IF err # "nil" THEN goto(respondError(r1, err), "IssueTokens")
    ELSE goto(r1, "IssueTokens")

loginLogin(r, err) ==
    LET r1 == called(r, Call("Login", NoMeta, 0, err, 0)) IN
    IF err # "nil" THEN return(respondError(r1, err))
    ELSE goto(r1, "IssueTokens")

\* The error of IssueTokens is written, and the handler goes on.
loginIssueTokens(r, err) ==
    LET meta == IF err = "nil" THEN NewMeta(r.id) ELSE NoMeta
        r1 == called([r EXCEPT !.meta = meta], Call("IssueTokens", meta, 0, err, 0))
    IN  IF err # "nil" THEN goto(respondError(r1, err), "SaveAuth")
        ELSE goto(r1, "SaveAuth")

\* The error of SaveAuth is written, and the handler goes on.
loginSaveAuth(r, err) ==
    LET r1 == called(r, Call("SaveAuth", r.meta, 0, err, 0)) IN
    IF err = "panic" THEN panic(r1)
    ELSE IF err # "nil" THEN goto(respondError(r1, err), "AttachSessionCookies")
    ELSE goto(r1, "AttachSessionCookies")

loginAttachSessionCookies(r, out) ==
    LET r1 == called(r, Call("AttachSessionCookies", r.meta, 0, out, 0)) IN
    IF out = "panic" THEN panic(r1)
    ELSE return(respondJSON(r1, 200))

\* The body of login: the statements in order, each reached only if the
\* one before it did not return.  SaveAuth is the handler's one store access.
login(s) ==
    LET r == req[s] IN
    /\ r.h = "login" /\ r.pc = "UserLoginFromJSON"
    /\ \E e \in {"nil", "decode"} :
       LET r1 == loginUserLoginFromJSON(r, e) IN
       \E lerr \in Outcomes(r1, "Login", {"nil", "InvalidCredentials"}) :
       LET r2 == IF r1.pc = "Login" THEN loginLogin(r1, lerr) ELSE r1 IN
       \E ierr \in Outcomes(r2, "IssueTokens", {"nil", "SigningError"}) :
       LET r3 == IF r2.pc = "IssueTokens" THEN loginIssueTokens(r2, ierr) ELSE r2 IN
       \E serr \in Outcomes(r3, "SaveAuth", SaveAuthOutcomes(r3.meta)) :
       LET r4 == IF r3.pc = "SaveAuth" THEN loginSaveAuth(r3, serr) ELSE r3 IN
       \E out \in Outcomes(r4, "AttachSessionCookies", AttachOutcomes(r4.meta)) :
       LET r5 == IF r4.pc = "AttachSessionCookies"
                 THEN loginAttachSessionCookies(r4, out) ELSE r4
       IN  /\ req' = [req EXCEPT ![s] = r5]
           /\ auth' = IF r3.pc = "SaveAuth" THEN SaveAuth(r3.meta, serr) ELSE auth
           /\ cookies' = IF r4.pc = "AttachSessionCookies"
                         THEN AttachSessionCookies(r4.meta, out) ELSE cookies
    /\ UNCHANGED <<revoked, nreq>>

----------------------------------------------------------------------------
(* createUser                                                              *)

createUserUserFromJSON(r, e) ==
    LET r1 == called(r, Call("UserFromJSON", NoMeta, 0, e, 0)) IN
    IF e # "nil" THEN return(respondError(r1, "msgUserFromJSON"))
    ELSE goto(r1, "CreateUser")

createUserCreateUser(r, err) ==
    LET r1 == called(r, Call("CreateUser", NoMeta, 0, err, 0)) IN
    IF err # "nil" THEN return(respondError(r1, err))
    ELSE goto(r1, "IssueTokens")

\* createUserIssueTokens followed by AttachSessionCookies, SaveAuth left out.
createUserIssueTokensNoSave(r, err) ==
    LET meta == IF err = "nil" THEN NewMeta(r.id) ELSE NoMeta
        r1 == called([r EXCEPT !.meta = meta], Call("IssueTokens", meta, 0, err, 0))
    IN  IF err # "nil" THEN goto(respondError(r1, err), "AttachSessionCookies")
        ELSE goto(r1, "AttachSessionCookies")

createUserIssueTokens(r, err) ==
    LET meta == IF err = "nil" THEN NewMeta(r.id) ELSE NoMeta
        r1 == called([r EXCEPT !.meta = meta], Call("IssueTokens", meta, 0, err, 0))
    IN  IF err # "nil" THEN goto(respondError(r1, err), "SaveAuth")
        ELSE goto(r1, "SaveAuth")

createUserSaveAuth(r, err) ==
    LET r1 == called(r, Call("SaveAuth", r.meta, 0, err, 0)) IN
    IF err = "panic" THEN panic(r1)
    ELSE IF err # "nil" THEN goto(respondError(r1, err), "AttachSessionCookies")
    ELSE goto(r1, "AttachSessionCookies")

createUserAttachSessionCookies(r, out) ==
    LET r1 == called(r, Call("AttachSessionCookies", r.meta, 0, out, 0)) IN
    IF out = "panic" THEN panic(r1)
    ELSE return(respondJSON(r1, 201))

\* The body of createUser, as login's.
createUser(s) ==
    LET r == req[s] IN
    /\ r.h = "createUser" /\ r.pc = "UserFromJSON"
    /\ \E e \in {"nil", "decode"} :
       LET r1 == createUserUserFromJSON(r, e) IN
       \E cerr \in Outcomes(r1, "CreateUser", {"nil", "Conflict"}) :
       LET r2 == IF r1.pc = "CreateUser" THEN createUserCreateUser(r1, cerr) ELSE r1 IN
       \E ierr \in Outcomes(r2, "IssueTokens", {"nil", "SigningError"}) :
       LET r3 == IF r2.pc = "IssueTokens" THEN createUserIssueTokens(r2, ierr) ELSE r2 IN
       \E serr \in Outcomes(r3, "SaveAuth", SaveAuthOutcomes(r3.meta)) :
       LET r4 == IF r3.pc = "SaveAuth" THEN createUserSaveAuth(r3, serr) ELSE r3 IN
       \E out \in Outcomes(r4, "AttachSessionCookies", AttachOutcomes(r4.meta)) :
       LET r5 == IF r4.pc = "AttachSessionCookies"
                 THEN createUserAttachSessionCookies(r4, out) ELSE r4
       IN  /\ req' = [req EXCEPT ![s] = r5]
           /\ auth' = IF r3.pc = "SaveAuth" THEN SaveAuth(r3.meta, serr) ELSE auth
           /\ cookies' = IF r4.pc = "AttachSessionCookies"
                         THEN AttachSessionCookies(r4.meta, out) ELSE cookies
    /\ UNCHANGED <<revoked, nreq>>

----------------------------------------------------------------------------
(* logout                                                                  *)

\* logout without its first statement.
logoutNoDeleteSessionCookies(r) == goto(r, "ExtractTokenMetadata")

logoutDeleteSessionCookies(r) ==
    goto(called(r, Call("DeleteSessionCookies", NoMeta, 0, "nil", 0)),
         "ExtractTokenMetadata")

\* logoutExtractTokenMetadata without the return after respondError.
logoutExtractTokenMetadataNoReturn(r, err) ==
    LET ad == IF err = "nil" THEN r.tok.AccessUUID ELSE 0
        r1 == called([r EXCEPT !.ad = ad],
                     Call("ExtractTokenMetadata", r.tok, ad, err, 0))
    IN  IF err # "nil" THEN goto(respondError(r1, err), "DeleteAuth")
        ELSE goto(r1, "DeleteAuth")

logoutExtractTokenMetadata(r, err) ==
    LET ad == IF err = "nil" THEN r.tok.AccessUUID ELSE 0
        r1 == called([r EXCEPT !.ad = ad],
                     Call("ExtractTokenMetadata", r.tok, ad, err, 0))
    IN  IF err # "nil" THEN return(respondError(r1, err))
        ELSE goto(r1, "DeleteAuth")

\* The key DeleteAuth is given: ad.AccessUUID.
logoutDeleteAuthKey(r) == r.ad

\* deleted == 0 with a nil error is answered with respondError(w, nil).
logoutDeleteAuth(r, err, deleted, nilout) ==
    LET r1 == called(r, Call("DeleteAuth", NoMeta, logoutDeleteAuthKey(r), err, deleted)) IN
    IF err # "nil" \/ deleted = 0
    THEN IF err # "nil" THEN return(respondError(r1, err))
         ELSE IF nilout = "panic" THEN panic(r1)
         ELSE return(respondError(r1, "nil"))
    ELSE return(respondOK(r1))

\* The body of logout up to its first store access: the cookies are
\* cleared and the token is verified against the store.
logoutExtract(s) ==
    LET r == req[s] IN
    /\ r.h = "logout" /\ r.pc = "DeleteSessionCookies"
    /\ LET r1 == logoutDeleteSessionCookies(r)
           r2 == IF r1.pc = "ExtractTokenMetadata"
                 THEN logoutExtractTokenMetadata(r1,
                          IF Verified(r1.tok.AccessUUID) THEN "nil" ELSE "Unauthenticated")
                 ELSE r1
       IN  req' = [req EXCEPT ![s] = r2]
    /\ UNCHANGED <<auth, cookies, revoked, nreq>>

\* The rest of logout: its second store access, and the response.  Other
\* requests and the store's eviction run between the two.
logoutDelete(s) ==
    LET r == req[s] IN
    /\ r.h = "logout" /\ r.pc = "DeleteAuth"
    /\ \E err \in {"nil", "PersistenceError"} :
         LET key == logoutDeleteAuthKey(r)
             deleted == DeleteAuthCount(key, err)
         IN
         \E nilout \in (IF err = "nil" /\ deleted = 0 THEN RespondNilOutcomes ELSE {"write"}) :
             /\ req' = [req EXCEPT ![s] = logoutDeleteAuth(r, err, deleted, nilout)]
             /\ auth' = DeleteAuth(key, err)
             /\ revoked' = IF deleted > 0 THEN revoked \cup {key} ELSE revoked
    /\ UNCHANGED <<cookies, nreq>>

----------------------------------------------------------------------------
(* refresh                                                                 *)

\* Refresh Flow (4.4): verify the refresh token, mint a pair, drop the old
\* refresh record (and the paired access record, if tracked), save the new.
RefreshTokenOutcomes(rt) ==
    IF Verified(rt.RefreshUUID) THEN {"nil", "SigningError", "PersistenceError"}
    ELSE {"Unauthenticated"}

RefreshTokenGone(rt, err) ==
    CASE err = "nil" -> {{rt.RefreshUUID}, {rt.RefreshUUID, rt.AccessUUID}}
      [] err = "PersistenceError" -> {{}, {rt.RefreshUUID}, {rt.RefreshUUID, rt.AccessUUID}}
      [] OTHER -> {{}}

RefreshToken(new, err, gone) ==
    IF err = "nil" THEN (auth \ gone) \cup {new.AccessUUID, new.RefreshUUID}
    ELSE auth \ gone

refreshRefreshTokenFromJSON(r, e) ==
    LET r1 == called(r, Call("RefreshTokenFromJSON", NoMeta, 0, e, 0)) IN
    IF e # "nil" THEN return(respondError(r1, "msgRefreshTokenFromJSON"))
    ELSE goto(r1, "RefreshToken")

\* refreshRefreshToken without the return after respondError.
refreshRefreshTokenNoReturn(r, err) ==
    LET meta == IF err = "nil" THEN NewMeta(r.id) ELSE NoMeta
        r1 == called([r EXCEPT !.meta = meta],
                     Call("RefreshToken", meta, r.tok.RefreshUUID, err, 0))
    IN  IF err # "nil" THEN goto(respondError(r1, err), "AttachSessionCookies")
        ELSE goto(r1, "AttachSessionCookies")

refreshRefreshToken(r, err) ==
    LET meta == IF err = "nil" THEN NewMeta(r.id) ELSE NoMeta
        r1 == called([r EXCEPT !.meta = meta],
                     Call("RefreshToken", meta, r.tok.RefreshUUID, err, 0))
    IN  IF err # "nil" THEN return(respondError(r1, err))
        ELSE goto(r1, "AttachSessionCookies")

refreshAttachSessionCookies(r) ==
    return(respondOK(called(r, Call("AttachSessionCookies", r.meta, 0, "nil", 0))))

\* The body of refresh; RefreshToken is its one store access.
refresh(s) ==
    LET r == req[s] IN
    /\ r.h = "refresh" /\ r.pc = "RefreshTokenFromJSON"
    /\ \E e \in {"nil", "decode"} :
       LET r1 == refreshRefreshTokenFromJSON(r, e) IN
       \E err \in Outcomes(r1, "RefreshToken", RefreshTokenOutcomes(r1.tok)) :
       \E gone \in (IF r1.pc = "RefreshToken" THEN RefreshTokenGone(r1.tok, err) ELSE {{}}) :
       LET r2 == IF r1.pc = "RefreshToken" THEN refreshRefreshToken(r1, err) ELSE r1
           r3 == IF r2.pc = "AttachSessionCookies"
                 THEN refreshAttachSessionCookies(r2) ELSE r2
       IN  /\ req' = [req EXCEPT ![s] = r3]
           /\ auth' = IF r1.pc = "RefreshToken"
                      THEN RefreshToken(NewMeta(r.id), err, gone) ELSE auth
           /\ cookies' = IF r2.pc = "AttachSessionCookies"
                         THEN AttachSessionCookies(r2.meta, "nil") ELSE cookies
    /\ UNCHANGED <<revoked, nreq>>

----------------------------------------------------------------------------

Next ==
    \/ \E s \in Slots : Arrive(s)
    \/ \E s \in Slots : SessionRequired(s)
    \/ \E s \in Slots : currentUser(s)
    \/ \E s \in Slots : createUser(s)
    \/ \E s \in Slots : login(s)
    \/ \E s \in Slots : logoutExtract(s)
    \/ \E s \in Slots : logoutDelete(s)
    \/ \E s \in Slots : refresh(s)
    \/ Expire

Spec == Init /\ [][Next]_vars

----------------------------------------------------------------------------
(* Reading a request's trace.                                              *)

CallsOf(r, fns) == SelectSeq(r.calls, LAMBDA c : c.fn \in fns)

HasCall(r, fn) == \E i \in 1..Len(r.calls) : r.calls[i].fn = fn

\* fn was called and returned an error value.
ReturnedError(r, fn) ==
    \E i \in 1..Len(r.calls) :
        r.calls[i].fn = fn /\ r.calls[i].err \notin {"nil", "panic"}

ReturnedNil(r, fn) ==
    \E i \in 1..Len(r.calls) : r.calls[i].fn = fn /\ r.calls[i].err = "nil"

SuccessWritten(r) == \E i \in 1..Len(r.resp) : r.resp[i].kind = "success"

\* The one response of r is the error fn returned.
AnsweredWithErrorOf(r, fn) ==
    /\ Len(r.resp) = 1
    /\ r.resp[1].kind = "error"
    /\ \E i \in 1..Len(r.calls) : r.calls[i].fn = fn /\ r.calls[i].err = r.resp[1].err

IssuingHandlers == {"login", "createUser"}

----------------------------------------------------------------------------
(* C1: in login and createUser, when SaveAuth returns an error the request *)
(* never calls AttachSessionCookies and writes no success response.        *)
C1_SaveAuthErrorIsFatal ==
    \A s \in Slots :
        (req[s].h \in IssuingHandlers /\ ReturnedError(req[s], "SaveAuth"))
            => /\ ~HasCall(req[s], "AttachSessionCookies")
               /\ ~SuccessWritten(req[s])

(* C2: in login and createUser, when IssueTokens returns an error, that    *)
(* error is the response and the request ends there: no SaveAuth, no       *)
(* AttachSessionCookies, no success response.                              *)
C2_IssueTokensErrorEndsRequest ==
    \A s \in Slots :
        (req[s].h \in IssuingHandlers /\ ReturnedError(req[s], "IssueTokens"))
            => /\ AnsweredWithErrorOf(req[s], "IssueTokens")
               /\ ~HasCall(req[s], "SaveAuth")
               /\ ~HasCall(req[s], "AttachSessionCookies")
               /\ ~SuccessWritten(req[s])

(* C3: a logout whose token extraction succeeded and whose DeleteAuth      *)
(* returned no error responds with success, also when zero records were    *)
(* deleted.                                                                *)
C3_LogoutSucceedsOnZeroDeleted ==
    \A s \in Slots :
        (/\ req[s].h = "logout"
         /\ req[s].pc \in {"done", "panic"}
         /\ ReturnedNil(req[s], "ExtractTokenMetadata")
         /\ ReturnedNil(req[s], "DeleteAuth"))
            => SuccessWritten(req[s])

(* C4: once a logout has removed the record of an access UUID, that UUID   *)
(* is never active again, and every later request to a session-required    *)
(* route (logout, currentUser) presenting that token is answered           *)
(* unauthenticated by the verification, its handler never entered.         *)
C4_RevokedStaysRevoked ==
    /\ revoked \cap auth = {}
    /\ \A s \in Slots :
          (req[s].late /\ req[s].h \in {"logout", "currentUser"})
              => /\ req[s].pc \in {"SessionRequired", "rejected"}
                 /\ req[s].calls = <<>>
                 /\ req[s].pc = "rejected"
                      => /\ Len(req[s].resp) = 1
                         /\ req[s].resp[1].kind = "error"
                         /\ req[s].resp[1].err = "Unauthenticated"

\* A second logout with a revoked token was rejected while a pair issued by
\* another request is active.
C4_Witness ==
    \E s \in Slots :
        /\ req[s].late /\ req[s].h = "logout" /\ req[s].pc = "rejected"
        /\ auth # {}

(* C5: in refresh, when RefreshToken returns an error, that error is the   *)
(* one response, AttachSessionCookies is not called and no success is      *)
(* written; cookies are attached only with the pair a successful           *)
(* RefreshToken of the same request returned.                              *)
C5_RefreshErrorIsTerminal ==
    \A s \in Slots :
        req[s].h = "refresh" =>
            /\ ReturnedError(req[s], "RefreshToken")
                 => /\ AnsweredWithErrorOf(req[s], "RefreshToken")
                    /\ ~HasCall(req[s], "AttachSessionCookies")
                    /\ ~SuccessWritten(req[s])
            /\ \A i \in 1..Len(req[s].calls) :
                 req[s].calls[i].fn = "AttachSessionCookies"
                   => \E j \in 1..(i - 1) :
                        /\ req[s].calls[j].fn = "RefreshToken"
                        /\ req[s].calls[j].err = "nil"
                        /\ req[s].calls[j].meta = req[s].calls[i].meta
                        /\ req[s].calls[i].meta # NoMeta

\* A refresh presenting a live refresh token failed in RefreshToken, and a
\* refresh attached the pair it was returned.
C5_Witness ==
    /\ \E s \in Slots :
         /\ req[s].h = "refresh" /\ req[s].pc = "done"
         /\ \E i \in 1..Len(req[s].calls) :
              req[s].calls[i].fn = "RefreshToken" /\ req[s].calls[i].err = "PersistenceError"
    /\ \E s \in Slots :
         /\ req[s].h = "refresh" /\ req[s].pc = "done"
         /\ HasCall(req[s], "AttachSessionCookies") /\ req[s].meta \in cookies

(* C6: a login or createUser that attached session cookies called          *)
(* IssueTokens, SaveAuth, AttachSessionCookies in that order, each once,   *)
(* and saved and attached the pair its IssueTokens returned.               *)
C6_IssueSaveAttachOrder ==
    \A s \in Slots :
        (req[s].h \in IssuingHandlers /\ HasCall(req[s], "AttachSessionCookies")) =>
            LET c == CallsOf(req[s], {"IssueTokens", "SaveAuth", "AttachSessionCookies"}) IN
            /\ Len(c) = 3
            /\ c[1].fn = "IssueTokens"
            /\ c[2].fn = "SaveAuth"
            /\ c[3].fn = "AttachSessionCookies"
            /\ c[2].meta = c[1].meta
            /\ c[3].meta = c[1].meta

\* A registration saved and attached a pair that a client now holds.
C6_Witness ==
    \E s \in Slots :
        /\ req[s].h = "createUser" /\ req[s].pc = "done"
        /\ HasCall(req[s], "AttachSessionCookies")
        /\ req[s].meta # NoMeta /\ req[s].meta \in cookies
        /\ req[s].meta.AccessUUID \in auth

(* C7: in login when the body fails to decode or Login returns an error,   *)
(* and in createUser when the body fails to decode or CreateUser returns   *)
(* an error, none of IssueTokens, SaveAuth, AttachSessionCookies is called *)
(* and the response is the error.                                          *)
C7_TokensOnlyForAuthenticated ==
    \A s \in Slots :
        LET r == req[s]
            NoTokenCalls == CallsOf(r, {"IssueTokens", "SaveAuth", "AttachSessionCookies"}) = <<>>
            DecodeError == /\ Len(r.resp) = 1
                           /\ r.resp[1].kind = "error"
                           /\ r.resp[1].err = "msgUserFromJSON"
        IN  /\ (r.h = "login" /\ ReturnedError(r, "UserLoginFromJSON"))
                 => NoTokenCalls /\ DecodeError
            /\ (r.h = "login" /\ ReturnedError(r, "Login"))
                 => NoTokenCalls /\ AnsweredWithErrorOf(r, "Login")
            /\ (r.h = "createUser" /\ ReturnedError(r, "UserFromJSON"))
                 => NoTokenCalls /\ DecodeError
            /\ (r.h = "createUser" /\ ReturnedError(r, "CreateUser"))
                 => NoTokenCalls /\ AnsweredWithErrorOf(r, "CreateUser")

\* A login was refused by Login and a registration by CreateUser.
C7_Witness ==
    /\ \E s \in Slots : req[s].h = "login" /\ ReturnedError(req[s], "Login")
    /\ \E s \in Slots : req[s].h = "createUser" /\ ReturnedError(req[s], "CreateUser")

(* C8: login, createUser, logout and refresh write exactly one response    *)
(* per request on every path, and an error response is never followed by   *)
(* a success response.                                                     *)
C8_ExactlyOneResponse ==
    \A s \in Slots :
        (req[s].h \in {"login", "createUser", "logout", "refresh"} /\ req[s].pc = "done")
            => /\ Len(req[s].resp) = 1
               /\ \A i, j \in 1..Len(req[s].resp) :
                    (i < j /\ req[s].resp[i].kind = "error")
                        => req[s].resp[j].kind # "success"

(* C9: every request that reaches the logout handler calls                 *)
(* DeleteSessionCookies exactly once, on every path, before any response   *)
(* is written.                                                             *)
C9_LogoutClearsCookiesFirst ==
    \A s \in Slots :
        (req[s].h = "logout" /\ req[s].pc \in {"DeleteAuth", "done", "panic"})
            => /\ Len(CallsOf(req[s], {"DeleteSessionCookies"})) = 1
               /\ req[s].calls[1].fn = "DeleteSessionCookies"
               /\ \A i \in 1..Len(req[s].resp) : req[s].resp[i].at >= 1

\* Two logouts finished: one deleted nothing, one failed in extraction.
C9_Witness ==
    /\ \E s \in Slots :
         /\ req[s].h = "logout" /\ req[s].pc \in {"done", "panic"}
         /\ \E i \in 1..Len(req[s].calls) :
              /\ req[s].calls[i].fn = "DeleteAuth"
              /\ req[s].calls[i].err = "nil" /\ req[s].calls[i].n = 0
    /\ \E s \in Slots :
         /\ req[s].h = "logout" /\ req[s].pc = "done"
         /\ ReturnedError(req[s], "ExtractTokenMetadata")

(* C10: logout calls DeleteAuth at most once per request, only after       *)
(* ExtractTokenMetadata succeeded, and only with the access UUID extracted *)
(* from the request's own token; when extraction fails it deletes nothing. *)
C10_LogoutDeletesOwnAccessUUID ==
    \A s \in Slots :
        req[s].h = "logout" =>
            /\ Len(CallsOf(req[s], {"DeleteAuth"})) <= 1
            /\ \A i \in 1..Len(req[s].calls) :
                 req[s].calls[i].fn = "DeleteAuth"
                   => /\ \E j \in 1..(i - 1) :
                           /\ req[s].calls[j].fn = "ExtractTokenMetadata"
                           /\ req[s].calls[j].err = "nil"
                           /\ req[s].calls[j].uuid = req[s].calls[i].uuid
                      /\ req[s].calls[i].uuid = req[s].tok.AccessUUID
                      /\ req[s].tok # NoMeta
            /\ ReturnedError(req[s], "ExtractTokenMetadata")
                 => ~HasCall(req[s], "DeleteAuth")

\* One logout deleted the record of its token; another, of the same
\* session, failed in extraction and deleted nothing.
C10_Witness ==
    /\ \E s \in Slots :
         /\ req[s].h = "logout" /\ req[s].pc = "done"
         /\ \E i \in 1..Len(req[s].calls) :
              req[s].calls[i].fn = "DeleteAuth" /\ req[s].calls[i].n = 1
    /\ \E s \in Slots :
         /\ req[s].h = "logout" /\ req[s].pc = "done"
         /\ ReturnedError(req[s], "ExtractTokenMetadata")

----------------------------------------------------------------------------
(* Handlers outside the session flow: sendVerificationEmail and            *)
(* deleteUserAvatar (api/v1/user.go) and patchProduct (api/v1/product.go). *)
(* Each makes its application calls one after the other and shares nothing *)
(* with other requests, so a handler runs as one step.                     *)

\* A request that reached handler h with input in; err is the handler's
\* local variable err and loc its other local (email, pid, user).
Request(h, pc, in) ==
    [h |-> h, pc |-> pc, id |-> 0, tok |-> NoMeta, meta |-> NoMeta, ad |-> 0,
     calls |-> <<>>, resp |-> <<>>, late |-> FALSE, in |-> in, err |-> "nil",
     loc |-> "nil"]

\* The email property of a request body, as sent.
Emails == {"", "  ", "bob-at-shop", "Bob@Shop.io", "bob@shop.io", "ann@shop.io"}

\* model.NormalizeEmail: trimmed and lower-cased.
NormalizeEmail(e) ==
    CASE e = "  " -> ""
      [] e = "Bob@Shop.io" -> "bob@shop.io"
      [] OTHER -> e

\* model.IsValidEmail: a well-formed address.
IsValidEmail(e) == e \in {"Bob@Shop.io", "bob@shop.io", "ann@shop.io"}

\* len(email)
StrLen(e) ==
    CASE e = "" -> 0
      [] e = "  " -> 2
      [] OTHER -> 11

\* The accounts in the user table.
RegisteredEmails == {"bob@shop.io"}

\* GetUserByEmail fails for an unknown address, or when the query fails.
GetUserByEmailOutcomes(email) ==
    IF email \in RegisteredEmails THEN {"nil", "msgGetUser"} ELSE {"msgGetUser"}

sendVerificationEmailNormalizeEmail(r) ==
    LET email == NormalizeEmail(r.in) IN
    IF StrLen(email) = 0 \/ ~IsValidEmail(email)
    THEN return(respondError(r, "msgInvalidEmail"))
    ELSE goto([r EXCEPT !.loc = email], "GetUserByEmail")

\* sendVerificationEmailGetUserByEmail answering a failed lookup with the error.
sendVerificationEmailLeaksLookup(r, err) ==
    LET r1 == called(r, Call("GetUserByEmail", NoMeta, 0, err, 0)) IN
    IF err # "nil" THEN return(respondError(r1, err))
    ELSE goto(r1, "SendVerificationEmail")

sendVerificationEmailGetUserByEmail(r, err) ==
    LET r1 == called(r, Call("GetUserByEmail", NoMeta, 0, err, 0)) IN
    IF err # "nil" THEN return(respondOK(r1))
    ELSE goto(r1, "SendVerificationEmail")

sendVerificationEmailSendVerificationEmail(r, err) ==
    LET r1 == called(r, Call("SendVerificationEmail", NoMeta, 0, err, 0)) IN
    IF err # "nil" THEN return(respondOK(r1))
    ELSE return(respondOK(r1))

sendVerificationEmail(s) ==
    LET r == req[s] IN
    /\ r.h = "sendVerificationEmail" /\ r.pc = "NormalizeEmail"
    /\ LET r1 == sendVerificationEmailNormalizeEmail(r) IN
       \E gerr \in Outcomes(r1, "GetUserByEmail", GetUserByEmailOutcomes(r1.loc)) :
       LET r2 == IF r1.pc = "GetUserByEmail"
                 THEN sendVerificationEmailGetUserByEmail(r1, gerr) ELSE r1 IN
       \E serr \in Outcomes(r2, "SendVerificationEmail", {"nil", "msgSendMail"}) :
       LET r3 == IF r2.pc = "SendVerificationEmail"
                 THEN sendVerificationEmailSendVerificationEmail(r2, serr) ELSE r2
       IN  req' = [req EXCEPT ![s] = r3]
    /\ UNCHANGED <<auth, cookies, revoked, nreq>>

ArriveSendVerificationEmail(s) ==
    /\ Finished(req[s])
    /\ \E e \in Emails :
         req' = [req EXCEPT ![s] = Request("sendVerificationEmail", "NormalizeEmail", e)]
    /\ UNCHANGED <<auth, cookies, revoked, nreq>>

----------------------------------------------------------------------------
(* patchProduct                                                            *)

\* The product_id URL parameter: a string of characters.
URLParams == {<<"7">>, <<"1", "2">>, <<"0">>, <<"a">>, <<"2", "a">>}

Digits == {"0", "1", "2", "7"}

DigitVal(c) ==
    CASE c = "0" -> 0
      [] c = "1" -> 1
      [] c = "2" -> 2
      [] c = "7" -> 7

RECURSIVE ParseDigits(_, _)
ParseDigits(str, acc) ==
    IF str = <<>> THEN acc
    ELSE ParseDigits(Tail(str), 10 * acc + DigitVal(Head(str)))

\* strconv.ParseInt(s, 10, 64): the value, or a syntax error.
ParseInt(str) ==
    IF str # <<>> /\ \A i \in 1..Len(str) : str[i] \in Digits
    THEN [val |-> ParseDigits(str, 0), err |-> "nil"]
    ELSE [val |-> 0, err |-> "ErrSyntax"]

patchProductParseInt(r) ==
    LET p == ParseInt(r.in.product_id)
        r1 == [r EXCEPT !.err = p.err, !.loc = p.val]
    IN  IF r1.err # "nil" THEN return(respondError(r1, "msgURLParamErr"))
        ELSE goto(r1, "ProductPatchFromJSON")

patchProductProductPatchFromJSON(r, e) ==
    LET r1 == called([r EXCEPT !.err = e], Call("ProductPatchFromJSON", NoMeta, 0, e, 0)) IN
    IF r1.err # "nil" THEN return(respondError(r1, "msgProductPatchFromJSON"))
    ELSE goto(r1, "PatchProduct")

\* The result of PatchProduct is pErr; the test is of err, left nil by the
\* decoding above.
patchProductPatchProduct(r, pErr) ==
    LET r1 == called(r, Call("PatchProduct", NoMeta, r.loc, pErr, 0)) IN
    IF r1.err # "nil" THEN return(respondError(r1, pErr))
    ELSE return(respondJSON(r1, 200))

patchProduct(s) ==
    LET r == req[s] IN
    /\ r.h = "patchProduct" /\ r.pc = "ParseInt"
    /\ LET r1 == patchProductParseInt(r) IN
       \E e \in Outcomes(r1, "ProductPatchFromJSON", {"nil", "decode"}) :
       LET r2 == IF r1.pc = "ProductPatchFromJSON"
                 THEN patchProductProductPatchFromJSON(r1, e) ELSE r1 IN
       \E pErr \in Outcomes(r2, "PatchProduct", {"nil", "msgPatchProduct"}) :
       LET r3 == IF r2.pc = "PatchProduct" THEN patchProductPatchProduct(r2, pErr) ELSE r2
       IN  req' = [req EXCEPT ![s] = r3]
    /\ UNCHANGED <<auth, cookies, revoked, nreq>>

ArrivePatchProduct(s) ==
    /\ Finished(req[s])
    /\ \E p \in URLParams :
         req' = [req EXCEPT ![s] = Request("patchProduct", "ParseInt", [product_id |-> p])]
    /\ UNCHANGED <<auth, cookies, revoked, nreq>>

----------------------------------------------------------------------------
(* deleteUserAvatar                                                        *)

\* What GetUserByID returns: no user with an error, else a user whose
\* AvatarPublicID is set or nil.
GetUserByIDResults ==
    { [user |-> "nil", err |-> "msgGetUser"],
      [user |-> "avatar", err |-> "nil"],
      [user |-> "noavatar", err |-> "nil"] }

\* The error is written, and the handler goes on.
deleteUserAvatarGetUserByID(r, res) ==
    LET r1 == called([r EXCEPT !.loc = res.user, !.err = res.err],
                     Call("GetUserByID", NoMeta, 0, res.err, 0))
    IN  IF r1.err # "nil" THEN goto(respondError(r1, r1.err), "AvatarPublicID")
        ELSE goto(r1, "AvatarPublicID")

\* *user.AvatarPublicID: dereferences user, then the pointer field.
deleteUserAvatarAvatarPublicID(r) ==
    IF r.loc = "avatar"
    THEN goto(called(r, Call("AvatarPublicID", NoMeta, 0, "nil", 0)), "DeleteUserAvatar")
    ELSE panic(called(r, Call("AvatarPublicID", NoMeta, 0, "panic", 0)))

deleteUserAvatarDeleteUserAvatar(r, err) ==
    LET r1 == called([r EXCEPT !.err = err], Call("DeleteUserAvatar", NoMeta, 0, err, 0)) IN
    IF err # "nil" THEN return(respondError(r1, err))
    ELSE return(respondOK(r1))

deleteUserAvatar(s) ==
    LET r == req[s] IN
    /\ r.h = "deleteUserAvatar" /\ r.pc = "GetUserByID"
    /\ \E res \in GetUserByIDResults :
       LET r1 == deleteUserAvatarGetUserByID(r, res)
           r2 == IF r1.pc = "AvatarPublicID" THEN deleteUserAvatarAvatarPublicID(r1) ELSE r1
       IN
       \E derr \in Outcomes(r2, "DeleteUserAvatar", {"nil", "msgDeleteAvatar"}) :
       LET r3 == IF r2.pc = "DeleteUserAvatar"
                 THEN deleteUserAvatarDeleteUserAvatar(r2, derr) ELSE r2
       IN  req' = [req EXCEPT ![s] = r3]
    /\ UNCHANGED <<auth, cookies, revoked, nreq>>

ArriveDeleteUserAvatar(s) ==
    /\ Finished(req[s])
    /\ req' = [req EXCEPT ![s] = Request("deleteUserAvatar", "GetUserByID", "uid")]
    /\ UNCHANGED <<auth, cookies, revoked, nreq>>

----------------------------------------------------------------------------

NextHandlers ==
    \/ \E s \in Slots : ArriveSendVerificationEmail(s)
    \/ \E s \in Slots : sendVerificationEmail(s)
    \/ \E s \in Slots : ArrivePatchProduct(s)
    \/ \E s \in Slots : patchProduct(s)
    \/ \E s \in Slots : ArriveDeleteUserAvatar(s)
    \/ \E s \in Slots : deleteUserAvatar(s)

SpecHandlers == Init /\ [][NextHandlers]_vars

----------------------------------------------------------------------------
\* The request's email, normalized, is non-empty and well-formed.
WellFormedEmail(r) ==
    LET email == NormalizeEmail(r.in) IN StrLen(email) # 0 /\ IsValidEmail(email)

\* What the client sees of a request: status and body of each response.
Answer(r) ==
    [i \in 1..Len(r.resp) |->
        [kind |-> r.resp[i].kind, code |-> r.resp[i].code, err |-> r.resp[i].err]]

(* C11: for every request whose normalized email is non-empty and          *)
(* well-formed, sendVerificationEmail writes the same OK response whether  *)
(* or not the user exists and whether or not the mail is sent (any two     *)
(* such requests are answered alike), and SendVerificationEmail is called  *)
(* only after the user lookup succeeded.                                   *)
C11_VerificationEmailAnswerHidesAccount ==
    /\ \A s \in Slots :
         (req[s].h = "sendVerificationEmail" /\ req[s].pc = "done" /\ WellFormedEmail(req[s]))
            => Answer(req[s]) = <<[kind |-> "success", code |-> 200, err |-> "nil"]>>
    /\ \A s, t \in Slots :
         (/\ req[s].h = "sendVerificationEmail" /\ req[s].pc = "done" /\ WellFormedEmail(req[s])
          /\ req[t].h = "sendVerificationEmail" /\ req[t].pc = "done" /\ WellFormedEmail(req[t]))
            => Answer(req[s]) = Answer(req[t])
    /\ \A s \in Slots :
         req[s].h = "sendVerificationEmail" =>
            \A i \in 1..Len(req[s].calls) :
                req[s].calls[i].fn = "SendVerificationEmail"
                  => \E j \in 1..(i - 1) :
                        /\ req[s].calls[j].fn = "GetUserByEmail"
                        /\ req[s].calls[j].err = "nil"

\* Two answered requests with well-formed emails: one for an address with
\* no account, one for an account whose mail could not be sent.
C11_Witness ==
    \E s, t \in Slots :
        /\ req[s].h = "sendVerificationEmail" /\ req[s].pc = "done"
        /\ WellFormedEmail(req[s])
        /\ NormalizeEmail(req[s].in) \notin RegisteredEmails
        /\ ReturnedError(req[s], "GetUserByEmail")
        /\ req[t].h = "sendVerificationEmail" /\ req[t].pc = "done"
        /\ req[t].in = "Bob@Shop.io"
        /\ ReturnedError(req[t], "SendVerificationEmail")

(* C13: in patchProduct, when PatchProduct returns an error the handler    *)
(* responds with that error and writes no 200 response; a 200 response is  *)
(* written only when PatchProduct succeeded.                               *)
C13_PatchProductErrorIsAnswered ==
    \A s \in Slots :
        req[s].h = "patchProduct" =>
            /\ ReturnedError(req[s], "PatchProduct")
                 => /\ AnsweredWithErrorOf(req[s], "PatchProduct")
                    /\ ~SuccessWritten(req[s])
            /\ SuccessWritten(req[s]) => ReturnedNil(req[s], "PatchProduct")

(* C16: in deleteUserAvatar, when GetUserByID returns an error the handler *)
(* responds with that error once and stops: it does not read the user's    *)
(* avatar id, does not call DeleteUserAvatar, writes no further response.  *)
C16_DeleteUserAvatarStopsOnLookupError ==
    \A s \in Slots :
        (req[s].h = "deleteUserAvatar" /\ ReturnedError(req[s], "GetUserByID"))
            => /\ AnsweredWithErrorOf(req[s], "GetUserByID")
               /\ ~HasCall(req[s], "AvatarPublicID")
               /\ ~HasCall(req[s], "DeleteUserAvatar")
               /\ req[s].pc = "done"

----------------------------------------------------------------------------
(* ProductBrand.Validate (model/product_brand.go).  A time.Time is the     *)
(* number of its instant, 0 for the zero time.                             *)

ProductBrands ==
    [ID : {-1, 0, 5}, ProductID : {0, 3},
     Name : {"", "Acme"}, Slug : {"", "acme"}, Type : {"", "retail"},
     Description : {"", "tools"}, Email : {"", "info@acme.io"},
     WebsiteURL : {"", "acme.io"},
     CreatedAt : {0, 1700}, UpdatedAt : {0, 1800}]

\* time.Time.IsZero
IsZero(t) == t = 0

\* Invalid(fieldName, l, msg): one entry of the validation errors.
Invalid(field, msg) == [field |-> field, msg |-> msg]

\* errs.Add(e) when the field fails.
Add(errs, failed, e) == IF failed THEN Append(errs, e) ELSE errs

\* Validate returning at the first failing field.
ValidateFirstOnly(pb) ==
    LET e1  == Add(<<>>, pb.ID # 0,            Invalid("brand.id", "msgValidateBrandID"))
        e2  == Add(e1,   pb.ProductID # 0 /\ e1 = <<>>,
                         Invalid("brand.product_id", "msgValidateBrandProductID"))
        e3  == Add(e2,   pb.Name = "" /\ e2 = <<>>,
                         Invalid("brand.name", "msgValidateBrandName"))
        e4  == Add(e3,   pb.Slug = "" /\ e3 = <<>>,
                         Invalid("brand.slug", "msgValidateBrandSlug"))
        e5  == Add(e4,   pb.Type = "" /\ e4 = <<>>,
                         Invalid("brand.type", "msgValidateBrandType"))
        e6  == Add(e5,   pb.Description = "" /\ e5 = <<>>,
                         Invalid("brand.description", "msgValidateBrandDescription"))
        e7  == Add(e6,   pb.Email = "" /\ e6 = <<>>,
                         Invalid("brand.email", "msgValidateBrandEmail"))
        e8  == Add(e7,   pb.WebsiteURL = "" /\ e7 = <<>>,
                         Invalid("brand.website_url", "msgValidateBrandWebsiteURL"))
        e9  == Add(e8,   IsZero(pb.CreatedAt) /\ e8 = <<>>,
                         Invalid("brand.created_at", "msgValidateBrandCrAt"))
        e10 == Add(e9,   IsZero(pb.UpdatedAt) /\ e9 = <<>>,
                         Invalid("brand.updated_at", "msgValidateBrandUpAt"))
    IN  IF e10 # <<>>
        THEN [err |-> "ValidationError", where |-> "ProductBrand",
              msg |-> "msgInvalidBrand", errs |-> e10]
        ELSE [err |-> "nil", where |-> "", msg |-> "", errs |-> <<>>]

Validate(pb) ==
    LET e1  == Add(<<>>, pb.ID # 0,            Invalid("brand.id", "msgValidateBrandID"))
        e2  == Add(e1,   pb.ProductID # 0,     Invalid("brand.product_id", "msgValidateBrandProductID"))
        e3  == Add(e2,   pb.Name = "",         Invalid("brand.name", "msgValidateBrandName"))
        e4  == Add(e3,   pb.Slug = "",         Invalid("brand.slug", "msgValidateBrandSlug"))
        e5  == Add(e4,   pb.Type = "",         Invalid("brand.type", "msgValidateBrandType"))
        e6  == Add(e5,   pb.Description = "",  Invalid("brand.description", "msgValidateBrandDescription"))
        e7  == Add(e6,   pb.Email = "",        Invalid("brand.email", "msgValidateBrandEmail"))
        e8  == Add(e7,   pb.WebsiteURL = "",   Invalid("brand.website_url", "msgValidateBrandWebsiteURL"))
        e9  == Add(e8,   IsZero(pb.CreatedAt), Invalid("brand.created_at", "msgValidateBrandCrAt"))
        e10 == Add(e9,   IsZero(pb.UpdatedAt), Invalid("brand.updated_at", "msgValidateBrandUpAt"))
    IN  IF e10 # <<>>
        THEN [err |-> "ValidationError", where |-> "ProductBrand",
              msg |-> "msgInvalidBrand", errs |-> e10]
        ELSE [err |-> "nil", where |-> "", msg |-> "", errs |-> <<>>]

\* A brand is decoded from a request and held, not yet validated.
NewProductBrand ==
    /\ req[1].pc \in {"idle", "done"}
    /\ \E pb \in ProductBrands :
         req' = [req EXCEPT ![1] = [h |-> "ProductBrand.Validate", pc |-> "Validate",
                                    pb |-> pb, ret |-> "none"]]
    /\ UNCHANGED <<auth, cookies, revoked, nreq>>

ValidateBrand ==
    /\ req[1].h = "ProductBrand.Validate" /\ req[1].pc = "Validate"
    /\ req' = [req EXCEPT ![1] = [@ EXCEPT !.pc = "done", !.ret = Validate(req[1].pb)]]
    /\ UNCHANGED <<auth, cookies, revoked, nreq>>

NextBrand == NewProductBrand \/ ValidateBrand

SpecBrand == Init /\ [][NextBrand]_vars

\* The fields of pb that break the rule stated for them, by their entry name.
FailingFields(pb) ==
    {f \in {"brand.id"} : pb.ID # 0}
    \cup {f \in {"brand.product_id"} : pb.ProductID # 0}
    \cup {f \in {"brand.name"} : pb.Name = ""}
    \cup {f \in {"brand.slug"} : pb.Slug = ""}
    \cup {f \in {"brand.type"} : pb.Type = ""}
    \cup {f \in {"brand.description"} : pb.Description = ""}
    \cup {f \in {"brand.email"} : pb.Email = ""}
    \cup {f \in {"brand.website_url"} : pb.WebsiteURL = ""}
    \cup {f \in {"brand.created_at"} : pb.CreatedAt = 0}
    \cup {f \in {"brand.updated_at"} : pb.UpdatedAt = 0}

(* C12: ProductBrand.Validate returns nil exactly when ID and ProductID    *)
(* are 0, the six strings are non-empty and both timestamps are non-zero;  *)
(* otherwise it returns one validation error with one entry per failing    *)
(* field, all failing fields reported.                                     *)
C12_ValidateReportsEveryFailingField ==
    (req[1].h = "ProductBrand.Validate" /\ req[1].pc = "done") =>
        LET pb == req[1].pb
            ret == req[1].ret
        IN  /\ ret.err = "nil" <=> FailingFields(pb) = {}
            /\ ret.err # "nil" =>
                 /\ ret.err = "ValidationError"
                 /\ Len(ret.errs) = Cardinality(FailingFields(pb))
                 /\ {ret.errs[i].field : i \in 1..Len(ret.errs)} = FailingFields(pb)

\* A brand failing in three fields was validated, and reported with three entries.
C12_Witness ==
    /\ req[1].h = "ProductBrand.Validate" /\ req[1].pc = "done"
    /\ req[1].pb.ID = -1 /\ req[1].pb.Slug = "" /\ req[1].pb.UpdatedAt = 0
    /\ Cardinality(FailingFields(req[1].pb)) = 3
    /\ Len(req[1].ret.errs) = 3

----------------------------------------------------------------------------
(* PgUserStore.Save (store/postgres).  The database's answer to the insert *)
(* is an input: NamedQuery fails and hands back no rows, or hands back     *)
(* rows whose iteration yields ids and may end in an error.                *)

Users ==
    [ID : {0}, Username : {"bob", "ann", "eve", "joe"},
     Email : {"bob@shop.io", "ann@shop.io", "eve@shop.io", "joe@shop.io"}]

\* The nil *model.User.
NilUser == [ID |-> 0, Username |-> "", Email |-> ""]

\* What s.db.NamedQuery and the iteration of its rows can produce.
NamedQueryOutcomes ==
    {[rows |-> "nil", ids |-> <<>>, err |-> "connection", rowsErr |-> "nil"]}
    \cup [rows : {"rows"}, ids : {<<7>>, <<8>>, <<9>>}, err : {"nil"}, rowsErr : {"nil"}]
    \cup [rows : {"rows"}, ids : {<<>>}, err : {"nil"},
          rowsErr : {"unique_violation", "connection"}]

IsUniqueConstraintError(err) == err = "unique_violation"

\* rows, err := s.db.NamedQuery(q, user)
SaveNamedQuery(r, out) ==
    goto([r EXCEPT !.rows = out.rows, !.err = out.err, !.q = out], "defer")

\* defer rows.Close(): evaluated before err is looked at; rows is nil when
\* the query failed, and the call through it panics.
SaveDeferRowsClose(r) ==
    IF r.rows = "nil"
    THEN panic([r EXCEPT !.ret = [user |-> NilUser, err |-> "panic"]])
    ELSE goto(r, "err")

\* if err != nil { return nil, ErrInternal }
SaveErr(r) ==
    IF r.err # "nil"
    THEN return([r EXCEPT !.ret = [user |-> NilUser, err |-> "ErrInternal"]])
    ELSE goto(r, "Next")

RECURSIVE SaveScan(_, _)
\* for rows.Next() { rows.Scan(&id) }
SaveScan(id, ids) ==
    IF ids = <<>> THEN id ELSE SaveScan(Head(ids), Tail(ids))

SaveRowsNext(r) ==
    goto([r EXCEPT !.id = SaveScan(@, r.q.ids)], "Err")

\* if err := rows.Err(); err != nil { conflict or internal }; user.ID = id
SaveRowsErr(r) ==
    IF r.q.rowsErr # "nil"
    THEN IF IsUniqueConstraintError(r.q.rowsErr)
         THEN return([r EXCEPT !.ret = [user |-> NilUser, err |-> "ErrConflict"]])
         ELSE return([r EXCEPT !.ret = [user |-> NilUser, err |-> "ErrInternal"]])
    ELSE return([r EXCEPT !.ret = [user |-> [r.user EXCEPT !.ID = r.id],
                                   err |-> "nil"]])

\* A caller holds a new user to save.
NewUser ==
    /\ req[1].pc \in {"idle", "done", "panic"}
    /\ \E user \in Users :
         req' = [req EXCEPT ![1] =
                   [h |-> "PgUserStore.Save", pc |-> "NamedQuery", user |-> user,
                    id |-> 0, rows |-> "nil", err |-> "nil",
                    q |-> [rows |-> "nil", ids |-> <<>>, err |-> "nil", rowsErr |-> "nil"],
                    ret |-> [user |-> NilUser, err |-> "none"]]]
    /\ UNCHANGED <<auth, cookies, revoked, nreq>>

Save ==
    LET r == req[1] IN
    /\ r.h = "PgUserStore.Save" /\ r.pc = "NamedQuery"
    /\ \E out \in NamedQueryOutcomes :
       LET r1 == SaveNamedQuery(r, out)
           r2 == SaveDeferRowsClose(r1)
           r3 == IF r2.pc = "err" THEN SaveErr(r2) ELSE r2
           r4 == IF r3.pc = "Next" THEN SaveRowsNext(r3) ELSE r3
           r5 == IF r4.pc = "Err" THEN SaveRowsErr(r4) ELSE r4
       IN  req' = [req EXCEPT ![1] = r5]
    /\ UNCHANGED <<auth, cookies, revoked, nreq>>

NextUserStore == NewUser \/ Save

SpecUserStore == Init /\ [][NextUserStore]_vars

\* Save has ended, by returning or by panicking.
SaveEnded(r) == r.h = "PgUserStore.Save" /\ r.pc \in {"done", "panic"}

(* C14: PgUserStore.Save returns (nil, error) without crashing whenever    *)
(* the insert query fails, returns the conflict error when row iteration   *)
(* reports a unique-constraint violation, and on success returns the same  *)
(* user with ID set to the id the insert returned.                         *)
C14_SaveReturnsErrorOrSavedUser ==
    SaveEnded(req[1]) =>
        LET r == req[1] IN
        /\ r.q.err # "nil" =>
             r.pc = "done" /\ r.ret.user = NilUser /\ r.ret.err \notin {"nil", "panic"}
        /\ (r.q.err = "nil" /\ r.q.rowsErr = "unique_violation") =>
             r.pc = "done" /\ r.ret = [user |-> NilUser, err |-> "ErrConflict"]
        /\ (r.q.err = "nil" /\ r.q.rowsErr = "nil") =>
             /\ r.pc = "done" /\ r.ret.err = "nil"
             /\ r.ret.user = [r.user EXCEPT !.ID = r.q.ids[Len(r.q.ids)]]

----------------------------------------------------------------------------
(* Route registration (InitUser, InitProducts) and the middleware in front *)
(* of each handler.  A request arrives on any registered route; login is   *)
(* run in full, as it is what creates sessions; every other handler is     *)
(* entered and recorded, its body left out.                                *)

InitProducts ==
    { Route("GET",    "Products", "/",                  "getProducts",          "none"),
      Route("POST",   "Products", "/",                  "createProduct",        "AdminSessionRequired"),
      Route("GET",    "Products", "/tags/{tag_id}",     "getSingleTag",         "none"),
      Route("GET",    "Products", "/images/{image_id}", "getSingleImage",       "none"),
      Route("PATCH",  "Products", "/tags/{tag_id}",     "patchProductTag",      "AdminSessionRequired"),
      Route("PATCH",  "Products", "/images/{image_id}", "patchProductImage",    "AdminSessionRequired"),
      Route("DELETE", "Products", "/tags/{tag_id}",     "deleteProductTag",     "AdminSessionRequired"),
      Route("DELETE", "Products", "/images/{image_id}", "deleteProductImage",   "AdminSessionRequired"),
      Route("GET",    "Products", "/properties",        "getProductProperties", "none"),
      Route("GET",    "Products", "/featured",          "getFeaturedProducts",  "none"),
      Route("GET",    "Products", "/search",            "searchProducts",       "none"),
      Route("GET",    "Product",  "/",                  "getProduct",           "none"),
      Route("PATCH",  "Product",  "/",                  "patchProduct",         "AdminSessionRequired"),
      Route("DELETE", "Product",  "/",                  "deleteProduct",        "AdminSessionRequired"),
      Route("GET",    "Product",  "/tags",              "getProductTags",       "none"),
      Route("GET",    "Product",  "/images",            "getProductImages",     "none"),
      Route("GET",    "Product",  "/reviews",           "getProductReviews",    "none") }

Roles == {"user", "admin"}

\* Where a request goes once it is past the middleware, if any.
EntryOf(h) == IF h = "login" THEN Entry(h) ELSE "ServeHTTP"

\* A request reaches the router on a registered route, carrying a token it
\* was given earlier or none.
ArriveRoute(s) ==
    /\ Finished(req[s])
    /\ \A t \in Slots : t < s => ~Finished(req[t])
    /\ nreq < MaxRequests
    /\ \E rt \in InitUser \cup InitProducts :
       \E tok \in (IF rt.wrap = "none" THEN {} ELSE cookies) \cup {NoMeta} :
       \E role \in (IF rt.wrap = "AdminSessionRequired" /\ tok # NoMeta
                    THEN Roles ELSE {"user"}) :
           req' = [req EXCEPT ![s] =
                     [h |-> rt.handler,
                      pc |-> IF rt.wrap = "none" THEN EntryOf(rt.handler) ELSE rt.wrap,
                      id |-> nreq + 1, tok |-> tok, meta |-> NoMeta, ad |-> 0,
                      calls |-> <<>>, resp |-> <<>>, late |-> FALSE,
                      method |-> rt.method, role |-> role]]
    /\ nreq' = nreq + 1
    /\ UNCHANGED <<auth, cookies, revoked>>

\* SessionRequired in front of any handler: the Token Verifier checks the
\* access token; a request that fails is answered and goes no further.
RouteSessionRequired(s) ==
    LET r == req[s] IN
    /\ r.pc = "SessionRequired"
    /\ req' = [req EXCEPT ![s] =
                 IF Verified(r.tok.AccessUUID)
                 THEN goto(called(r, Call("SessionRequired", r.tok, r.tok.AccessUUID,
                                          "nil", 0)), EntryOf(r.h))
                 ELSE reject(respondError(r, "Unauthenticated"))]
    /\ UNCHANGED <<auth, cookies, revoked, nreq>>

\* AdminSessionRequired: the same check, and the session's user is an admin.
AdminSessionRequired(s) ==
    LET r == req[s] IN
    /\ r.pc = "AdminSessionRequired"
    /\ req' = [req EXCEPT ![s] =
                 IF ~Verified(r.tok.AccessUUID)
                 THEN reject(respondError(r, "Unauthenticated"))
                 ELSE IF r.role # "admin"
                 THEN reject(respondError(r, "Unauthorized"))
                 ELSE goto(called(r, Call("AdminSessionRequired", r.tok,
                                          r.tok.AccessUUID, "nil", 0)), EntryOf(r.h))]
    /\ UNCHANGED <<auth, cookies, revoked, nreq>>

\* The handler registered for the route is entered.
ServeHTTP(s) ==
    LET r == req[s] IN
    /\ r.pc = "ServeHTTP"
    /\ req' = [req EXCEPT ![s] = return(called(r, Call(r.h, NoMeta, 0, "nil", 0)))]
    /\ UNCHANGED <<auth, cookies, revoked, nreq>>

NextRoutes ==
    \/ \E s \in Slots : ArriveRoute(s)
    \/ \E s \in Slots : RouteSessionRequired(s)
    \/ \E s \in Slots : AdminSessionRequired(s)
    \/ \E s \in Slots : login(s)
    \/ \E s \in Slots : ServeHTTP(s)

SpecRoutes == Init /\ [][NextRoutes]_vars

\* The handlers that change or delete stored account or catalog data.
AccountChangingHandlers ==
    {"updateProfile", "changeUserPassword", "uploadUserAvatar", "deleteUserAvatar",
     "createUserAddress", "updateUserAddress", "deleteUserAddress", "deleteUser"}

CatalogChangingHandlers ==
    {rt.handler : rt \in {x \in InitProducts : x.method \in {"POST", "PATCH", "DELETE"}}}

\* The request passed the verification of middleware mw before anything else.
PassedVerification(r, mw) ==
    r.calls # <<>> /\ r.calls[1].fn = mw /\ r.calls[1].err = "nil"

(* C15: every route that changes or deletes stored account or catalog data *)
(* is behind session verification: the profile, password, avatar, address  *)
(* and user-deletion handlers of InitUser run only for a request that      *)
(* passed SessionRequired, and the create, patch and delete handlers of    *)
(* InitProducts only for one that passed AdminSessionRequired.             *)
C15_ChangingRoutesBehindVerification ==
    \A s \in Slots :
        LET r == req[s] IN
        /\ (r.h \in AccountChangingHandlers /\ HasCall(r, r.h)) =>
               PassedVerification(r, "SessionRequired")
        /\ (r.h \in CatalogChangingHandlers /\ HasCall(r, r.h)) =>
               PassedVerification(r, "AdminSessionRequired")

====
